---- MODULE Spec2Model ----
(***************************************************************************)
(* A model of the MB2 galaxy catalog reader (reader/MB2GalaxyCatalog.py)   *)
(* and of the color distribution validation test                           *)
(* (validation_code/ColorDistributionTest.py).                             *)
(*                                                                         *)
(* Floating point values are pairs <<kind, n>>: a number, nan, inf or      *)
(* -inf.  Histogram values are exact rationals num/den with one common     *)
(* denominator per array; den = 0 stands for an array of nan (0/0).        *)
(* Strings that the code indexes by character (the colors) are tuples of   *)
(* one-character strings.                                                  *)
(***************************************************************************)
EXTENDS Integers, Sequences, FiniteSets, TLC

\* ------------------------------------------------------------------ bounds
\* Largest number of rows of a catalog.
MaxRows == 2
\* Largest number of configured colors.
MaxColors == 2
\* Number of bin edges of the color histogram.  run_validation_test passes
\* 2000 edges over [-1, 4]; the model bins the same range with fewer edges.
NumEdges == 6

\* ------------------------------------------------------------------ floats
Num(n) == <<"num", n>>
NaN == <<"nan", 0>>
PInf == <<"inf", 0>>
NInf == <<"ninf", 0>>

\* An array with its entries evaluated: the sequence f as a tuple.
Array(f) == f \o <<>>

\* np.isfinite
isfinite(f) == f[1] = "num"

Rank(f) == CASE f[1] = "ninf" -> 0 [] f[1] = "num" -> 1 [] f[1] = "inf" -> 2 [] OTHER -> 3

\* a < b on floats: every comparison with nan is false.
FLt(a, b) ==
  /\ a[1] # "nan"
  /\ b[1] # "nan"
  /\ \/ Rank(a) < Rank(b)
     \/ (a[1] = "num" /\ b[1] = "num" /\ a[2] < b[2])

\* a + b on floats.
FAdd(a, b) ==
  IF a[1] = "nan" \/ b[1] = "nan" THEN NaN
  ELSE IF a[1] = "num" /\ b[1] = "num" THEN Num(a[2] + b[2])
  ELSE IF a[1] = "num" THEN b
  ELSE IF b[1] = "num" THEN a
  ELSE IF a[1] = b[1] THEN a
  ELSE NaN

\* ----------------------------------------------------------------- catalog
\* The columns of the table read by load().
Row(x, y, z, redshift, halo_id, u, g, r) ==
  [c \in {"x", "y", "z", "redshift", "halo_id",
          "SDSS_u:rest:", "SDSS_g:rest:", "SDSS_r:rest:"} |->
     CASE c = "x" -> x
       [] c = "y" -> y
       [] c = "z" -> z
       [] c = "redshift" -> redshift
       [] c = "halo_id" -> halo_id
       [] c = "SDSS_u:rest:" -> u
       [] c = "SDSS_g:rest:" -> g
       [] c = "SDSS_r:rest:" -> r]

\* self.catalog[name]: one column of the table, in stored row order.
Column(catalog, name) == Array([i \in 1..Len(catalog) |-> catalog[i][name]])

\* self.quantities: the quantity table, name -> handler.
quantities ==
  [q \in {"halo_id", "redshift",
          "SDSS_u:observed:", "SDSS_g:observed:", "SDSS_r:observed:"} |->
     IF q \in {"halo_id", "redshift"} THEN "_get_stored_property"
     ELSE "_get_derived_property"]

\* self.derived: name -> (arrays required, scalars, function).
derived ==
  [q \in {"SDSS_u:observed:", "SDSS_g:observed:", "SDSS_r:observed:"} |->
     [arrays |-> <<(CASE q = "SDSS_u:observed:" -> "SDSS_u:rest:"
                      [] q = "SDSS_g:observed:" -> "SDSS_g:rest:"
                      [] q = "SDSS_r:observed:" -> "SDSS_r:rest:"), "redshift">>,
      scalars |-> <<>>,
      func |-> "_add_distance_modulus"]]

\* The filter argument: a dict (type "dict", its items a function from keys
\* to thresholds) or a value of another type.
Dict(items) == [type |-> "dict", items |-> items]
EmptyItems == [k \in {} |-> Num(0)]

\* Mutant of _construct_mask: the upper bound is not strict.
MaskNotStrict(catalog, filters) ==
  Array([i \in 1..Len(catalog) |->
     /\ isfinite(catalog[i]["x"])
     /\ isfinite(catalog[i]["y"])
     /\ isfinite(catalog[i]["z"])
     /\ \A k \in DOMAIN filters.items :
          CASE k = "zlo" -> FLt(filters.items[k], catalog[i]["redshift"])
            [] k = "zhi" -> \/ FLt(catalog[i]["redshift"], filters.items[k])
                            \/ catalog[i]["redshift"] = filters.items[k]
            [] OTHER -> TRUE])

\* Mutant of _construct_mask: a key other than zlo and zhi clears the mask.
MaskUnknownKeyClears(catalog, filters) ==
  Array([i \in 1..Len(catalog) |->
     /\ isfinite(catalog[i]["x"])
     /\ isfinite(catalog[i]["y"])
     /\ isfinite(catalog[i]["z"])
     /\ \A k \in DOMAIN filters.items :
          CASE k = "zlo" -> FLt(filters.items[k], catalog[i]["redshift"])
            [] k = "zhi" -> FLt(catalog[i]["redshift"], filters.items[k])
            [] OTHER -> FALSE])

\* _construct_mask, for a dict: one boolean per row.  The loop over the keys
\* ANDs one term per key; keys other than zlo and zhi add no term.
ConstructMaskDict(catalog, filters) ==
  Array([i \in 1..Len(catalog) |->
     /\ isfinite(catalog[i]["x"])
     /\ isfinite(catalog[i]["y"])
     /\ isfinite(catalog[i]["z"])
     /\ \A k \in DOMAIN filters.items :
          CASE k = "zlo" -> FLt(filters.items[k], catalog[i]["redshift"])
            [] k = "zhi" -> FLt(catalog[i]["redshift"], filters.items[k])
            [] OTHER -> TRUE])

\* _construct_mask: TypeError unless filters is a dict.
construct_mask(catalog, filters) ==
  IF filters.type # "dict"
  THEN [raised |-> "TypeError", mask |-> <<>>]
  ELSE [raised |-> "", mask |-> ConstructMaskDict(catalog, filters)]

\* np.where(mask): the indices of the true entries, ascending.
Where(mask) == SelectSeq(Array([i \in 1..Len(mask) |-> i]), LAMBDA i : mask[i])

\* column[indices]
Take(column, indices) == Array([k \in 1..Len(indices) |-> column[indices[k]]])

\* cosmology.distmod(redshift), elementwise: a table standing for astropy's
\* FlatLambdaCDM distance modulus (increasing in z, -inf at z = 0).
distmod(z) ==
  CASE z[1] = "nan" -> NaN
    [] z[1] = "inf" -> PInf
    [] z[1] = "ninf" -> NaN
    [] z[1] = "num" /\ z[2] > 0 -> Num(40 + z[2])
    [] z[1] = "num" /\ z[2] = 0 -> NInf
    [] OTHER -> NaN

\* _add_distance_modulus(array_tuple, scalar_tuple)
add_distance_modulus(array_tuple, scalar_tuple) ==
  Array([k \in 1..Len(array_tuple[1]) |->
           FAdd(array_tuple[1][k], distmod(array_tuple[2][k]))])

\* _get_stored_property(quantity, filters).  The answer carries the handler's
\* local filter_mask beside the returned array.
get_stored_property(catalog, quantity, filters) ==
  LET m == construct_mask(catalog, filters)
  IN  IF m.raised # "" THEN [raised |-> m.raised, mask |-> <<>>, data |-> <<>>]
      ELSE [raised |-> "", mask |-> m.mask,
            data |-> Take(Column(catalog, quantity), Where(m.mask))]

\* _get_derived_property(quantity, filters)
get_derived_property(catalog, quantity, filters) ==
  LET m == construct_mask(catalog, filters)
      d == derived[quantity]
  IN  IF m.raised # "" THEN [raised |-> m.raised, mask |-> <<>>, data |-> <<>>]
      ELSE [raised |-> "", mask |-> m.mask,
            data |-> add_distance_modulus(
                       Array([n \in 1..Len(d.arrays) |->
                                Take(Column(catalog, d.arrays[n]), Where(m.mask))]),
                       d.scalars)]

\* GalaxyCatalog.get_quantities(id, filters): look the name up in the quantity
\* table and call its handler; an unknown name is a lookup failure.
get_quantities(catalog, id, filters) ==
  IF id \notin DOMAIN quantities THEN [raised |-> "KeyError", mask |-> <<>>, data |-> <<>>]
  ELSE IF quantities[id] = "_get_stored_property"
       THEN get_stored_property(catalog, id, filters)
       ELSE get_derived_property(catalog, id, filters)

\* ------------------------------------------------------- catalog inputs
\* All sequences over S of length at most n.
SeqsUpTo(S, n) == UNION {[1..k -> S] : k \in 0..n}

\* Rows for the reader: every way one coordinate can fail to be finite, and
\* redshifts on, inside and outside the thresholds used below.
ReaderRows ==
  {Row(Num(1), Num(2), Num(3), Num(1), Num(11), Num(-28), Num(-29), Num(-30)),
   Row(Num(1), Num(2), Num(3), Num(2), Num(12), Num(-28), Num(-29), Num(-30)),
   Row(Num(1), Num(2), Num(3), Num(3), Num(13), Num(-27), Num(-29), Num(-30)),
   Row(Num(1), Num(2), Num(3), NaN, Num(14), Num(-28), Num(-29), Num(-30)),
   Row(NaN, Num(2), Num(3), Num(2), Num(15), Num(-28), Num(-29), Num(-30)),
   Row(Num(1), PInf, Num(3), Num(2), Num(16), Num(-28), Num(-29), Num(-30)),
   Row(Num(1), Num(2), NInf, Num(2), Num(17), Num(-28), Num(-29), Num(-30))}

ReaderCatalogs == SeqsUpTo(ReaderRows, MaxRows)

\* Filter dicts: zlo and zhi present or absent, with or without a key the
\* reader does not know; and one argument that is no dict.
FilterItems ==
  {f \in UNION {[K -> {Num(1), Num(2), Num(3)}] : K \in SUBSET {"zlo", "zhi", "mass_min"}} :
     /\ ("zlo" \in DOMAIN f => f["zlo"] \in {Num(1), Num(2)})
     /\ ("zhi" \in DOMAIN f => f["zhi"] \in {Num(2), Num(3)})
     /\ ("mass_min" \in DOMAIN f => f["mass_min"] = Num(1))}

FilterArgs == {Dict(f) : f \in FilterItems} \cup {[type |-> "list", items |-> EmptyItems]}

QuantityNames == {"halo_id", "redshift", "SDSS_g:observed:", "stellar_mass_bulge"}

VARIABLES
  reader_catalog,       \* the table of a loaded MB2GalaxyCatalog
  q_id, q_filters,      \* the arguments of its last get_quantities call
  q_answer              \* what the call raised, the mask it built, the array it returned

reader_vars == <<reader_catalog, q_id, q_filters, q_answer>>

\* ------------------------------------------------------------- histograms
\* The bin range passed to color_distribution: (-1, 4, NumEdges).
BinLo == -1
BinHi == 4

\* Sum of the first k entries of a sequence of integers.
RECURSIVE SumTo(_, _)
SumTo(a, k) == IF k = 0 THEN 0 ELSE SumTo(a, k - 1) + a[k]

\* The bin (1 .. n-1) np.histogram puts v in for the edges
\* np.linspace(lo, hi, n), 0 when v is outside [lo, hi]: bins are closed on
\* the left and open on the right, the last one closed on both sides.
BinOf(v, lo, hi, n) ==
  IF v < lo \/ v > hi THEN 0
  ELSE IF v = hi THEN n - 1
  ELSE ((v - lo) * (n - 1)) \div (hi - lo) + 1

\* np.histogram(values, bins=np.linspace(lo, hi, n)): the count of each bin.
Histogram(values, lo, hi, n) ==
  Array([b \in 1..(n - 1) |->
           Cardinality({k \in 1..Len(values) : BinOf(values[k], lo, hi, n) = b})])

\* hist/np.sum(hist) under true division: every entry over the sum of the
\* counts; a sum of 0 makes every entry 0/0, which is nan.
Normalize(counts) == [num |-> counts, den |-> SumTo(counts, Len(counts))]

\* (bins[1:] + bins[:-1])/2., in units of 1/(2(n-1)).
BinCenters(lo, hi, n) ==
  Array([b \in 1..(n - 1) |-> 2 * (n - 1) * lo + (2 * b - 1) * (hi - lo)])

\* The prefix-sum loop of run_validation_test: cdf[0] = hist[0], then
\* cdf[k] = cdf[k-1] + hist[k].  A nan histogram gives a nan cdf.
RECURSIVE CdfAt(_, _)
CdfAt(num, k) == IF k = 1 THEN num[1] ELSE CdfAt(num, k - 1) + num[k]

Cumsum(hist) ==
  [num |-> Array([k \in 1..Len(hist.num) |-> CdfAt(hist.num, k)]), den |-> hist.den]

\* array > t for t = tnum/1000; a comparison with nan is false.
Above(arr, k, tnum) == arr.den > 0 /\ arr.num[k] * 1000 > tnum * arr.den

\* np.argmax(arr > t): the first index where the comparison holds, the first
\* index of the array when it holds nowhere.
ArgmaxAbove(arr, tnum) ==
  IF \E k \in 1..Len(arr.num) : Above(arr, k, tnum)
  THEN CHOOSE k \in 1..Len(arr.num) :
         /\ Above(arr, k, tnum)
         /\ \A j \in 1..(k - 1) : ~Above(arr, j, tnum)
  ELSE 1

\* The five thresholds in the order of a quantile row, in thousandths:
\* 95% low, 68% low, median, 68% high, 95% high.
Thresholds == <<25, 160, 500, 840, 975>>

\* np.array([m95min, m68min, mmedian, m68max, m95max])
QuantileRow(binctr, cdf) ==
  Array([t \in 1..5 |-> binctr[ArgmaxAbove(cdf, Thresholds[t])]])

ZeroRow == Array([t \in 1..5 |-> 0])

\* ------------------------------------------------------------ configuration
\* Colors are strings indexed by character: tuples of characters.
UG == <<"u", "-", "g">>
GR == <<"g", "-", "r">>

\* None where the code holds a float, and where it holds a string.
NoneF == <<"none", 0>>
NoneS == "None"

\* translate tables: every band to a quantity of the catalog; u to a name
\* the catalog does not have; no entry for r.
TranslateFull ==
  [b \in {"u", "g", "r"} |->
     CASE b = "u" -> "SDSS_u:observed:"
       [] b = "g" -> "SDSS_g:observed:"
       [] b = "r" -> "SDSS_r:observed:"]
TranslateUnknownU == [TranslateFull EXCEPT !["u"] = "DES_u"]
TranslateNoR == [b \in {"u", "g"} |-> TranslateFull[b]]

\* The keyword arguments without the colors: the translate table, the
\* optional limiting band and magnitude, and the validation data name.
Options(translate, limiting_band, limiting_mag, data_name) ==
  [translate |-> translate, limiting_band |-> limiting_band,
   limiting_mag |-> limiting_mag, data_name |-> data_name]

\* A call ColorDistributionTest(load_validation_catalog_q, **kwargs): has
\* is the set of keywords given, the other fields are their values.
Call(has, colors, o, load_q) ==
  [has |-> has, colors |-> colors, translate |-> o.translate,
   limiting_band |-> o.limiting_band, limiting_mag |-> o.limiting_mag,
   zlo |-> Num(1), zhi |-> Num(3), data_dir |-> "data", data_name |-> o.data_name,
   load_validation_catalog_q |-> load_q]

Required == {"colors", "translate", "zlo", "zhi", "data_dir", "data_name"}

ColorLists == SeqsUpTo({UG, GR}, MaxColors)

\* Color strings __init__ rejects: too short, too long, no '-' in the middle.
BadColors == {<<"u", "g">>, <<"u", "-", "g", "r">>, <<"u", "+", "g">>}

OptionSets ==
  {Options(TranslateFull, NoneS, NoneF, "DEEP2"),
   Options(TranslateFull, "r", Num(20), "SDSS"),
   Options(TranslateFull, "r", NoneF, "DEEP2"),
   Options(TranslateFull, NoneS, NoneF, "COSMOS"),
   Options(TranslateUnknownU, NoneS, NoneF, "DEEP2"),
   Options(TranslateUnknownU, "u", Num(20), "DEEP2"),
   Options(TranslateNoR, NoneS, NoneF, "DEEP2"),
   Options(TranslateNoR, "r", Num(20), "DEEP2")}

\* The calls of the constructor: complete ones, ones with required keywords
\* left out, and ones with a malformed color.
Calls ==
  {Call(Required \cup (IF o.limiting_band = NoneS THEN {} ELSE {"limiting_band"})
                 \cup (IF o.limiting_mag = NoneF THEN {} ELSE {"limiting_mag"}),
        cl, o, TRUE) : cl \in ColorLists, o \in OptionSets}
  \cup {Call(Required, cl, Options(TranslateFull, NoneS, NoneF, "SDSS"), FALSE) :
          cl \in ColorLists}
  \cup {Call(has, <<UG, GR>>, Options(TranslateFull, NoneS, NoneF, "DEEP2"), TRUE) :
          has \in SUBSET Required}
  \cup {Call(Required, cl, Options(TranslateFull, NoneS, NoneF, "DEEP2"), TRUE) :
          cl \in {<<b>> : b \in BadColors} \cup {<<UG, b>> : b \in BadColors}}

\* No call yet.
NoCall == Call({}, <<>>, Options(TranslateFull, NoneS, NoneF, ""), TRUE)

\* The fields of a validator that was not constructed.
NoSelf ==
  [colors |-> <<>>, translate |-> TranslateFull, limiting_band |-> NoneS,
   limiting_mag |-> NoneF, zlo_obs |-> NoneF, zlo_mock |-> NoneF,
   zhi_obs |-> NoneF, zhi_mock |-> NoneF, _data_dir |-> "", _data_name |-> "",
   load_validation_catalog_q |-> TRUE, band1 |-> "", band2 |-> ""]

\* The format test of __init__ for one color.
WellFormed(color) == ~(Len(color) # 3 \/ color[2] # "-")

\* What __init__ raises, <<type, message>> (the message without its quoting
\* marks), in the order of its statements;
\* <<"", "">> when it returns.
InitRaises(k) ==
  IF "data_dir" \notin k.has THEN <<"KeyError", "data_dir">>
  ELSE IF "data_name" \notin k.has THEN <<"KeyError", "data_name">>
  ELSE IF "colors" \notin k.has THEN <<"ValueError", "colors not found!">>
  ELSE IF \E i \in 1..Len(k.colors) : ~WellFormed(k.colors[i])
       THEN <<"ValueError", "colors is not in the correct format!">>
  ELSE IF "zlo" \notin k.has THEN <<"ValueError", "zlo not found!">>
  ELSE IF "zhi" \notin k.has THEN <<"ValueError", "zhi not found!">>
  ELSE IF "translate" \notin k.has THEN <<"ValueError", "translate not found!">>
  ELSE <<"", "">>

\* The fields __init__ sets when it returns.
InitSelf(k) ==
  [colors |-> k.colors, translate |-> k.translate,
   limiting_band |-> IF "limiting_band" \in k.has THEN k.limiting_band ELSE NoneS,
   limiting_mag |-> IF "limiting_mag" \in k.has THEN k.limiting_mag ELSE NoneF,
   zlo_obs |-> k.zlo, zlo_mock |-> k.zlo, zhi_obs |-> k.zhi, zhi_mock |-> k.zhi,
   _data_dir |-> k.data_dir, _data_name |-> k.data_name,
   load_validation_catalog_q |-> k.load_validation_catalog_q,
   band1 |-> "", band2 |-> ""]

\* ----------------------------------------------------------- reference data
\* The histogram of the validation data for the color at position i (from
\* 1): DEEP2 spreads evenly over the bins, SDSS puts half in the first and
\* half in the last bin, the per-color summary files put everything in the
\* bin i.  Each sums to 1.
RefHist(source, i) ==
  CASE source = "DEEP2" ->
         [num |-> Array([b \in 1..(NumEdges - 1) |-> 1]), den |-> NumEdges - 1]
    [] source = "SDSS" ->
         [num |-> Array([b \in 1..(NumEdges - 1) |-> IF b \in {1, NumEdges - 1} THEN 1 ELSE 0]),
          den |-> 2]
    [] OTHER ->
         [num |-> Array([b \in 1..(NumEdges - 1) |-> IF b = i THEN 1 ELSE 0]), den |-> 1]

\* load_DEEP2(colors, zlo, zhi), load_SDSS(colors, zlo, zhi): one
\* (binctr, hist) per color.
load_summary(source, colors) ==
  Array([i \in 1..Len(colors) |->
           [binctr |-> BinCenters(BinLo, BinHi, NumEdges), hist |-> RefHist(source, i)]])

\* load_validation_data(filename): the (binctr, hist) of one summary file.
load_validation_data(i) ==
  [binctr |-> BinCenters(BinLo, BinHi, NumEdges), hist |-> RefHist("file", i)]

\* ------------------------------------------------------ color_distribution
NoHist == [num |-> <<>>, den |-> 0]

\* What color_distribution does: it raises, returns (None, None) after a log
\* line, or returns (binctr, hist).  calls lists its calls of
\* get_quantities; values is the array of differences it binned.
Raises(type, calls) ==
  [kind |-> "raise", raised |-> type, log |-> <<>>, calls |-> calls,
   values |-> <<>>, binctr |-> <<>>, hist |-> NoHist]
ReturnsNone(msg, calls) ==
  [kind |-> "none", raised |-> "", log |-> <<<<msg>>>>, calls |-> calls,
   values |-> <<>>, binctr |-> <<>>, hist |-> NoHist]
ReturnsHist(calls, values, binctr, hist) ==
  [kind |-> "hist", raised |-> "", log |-> <<>>, calls |-> calls,
   values |-> values, binctr |-> binctr, hist |-> hist]

\* One call galaxy_catalog.get_quantities(id, filters).
Fetch(id, filters) == [id |-> id, filters |-> filters]

\* {'zlo': self.zlo_mock, 'zhi': self.zhi_mock}
MockFilters(self) ==
  Dict([k \in {"zlo", "zhi"} |-> IF k = "zlo" THEN self.zlo_mock ELSE self.zhi_mock])

\* Mutant of MagMask: the limiting magnitude is not applied.
MagMaskNoLimit(self, mag1, mag2, mag_lim) ==
  Array([k \in 1..Len(mag1) |->
     /\ FLt(Num(0), mag1[k]) /\ FLt(mag1[k], Num(50))
     /\ FLt(Num(0), mag2[k]) /\ FLt(mag2[k], Num(50))])

\* The mask of color_distribution.  With a limiting band it starts with
\* mag_lim < self.limiting_mag; a limiting magnitude of None, where the
\* comparison does not raise, compares false everywhere.
MagMask(self, mag1, mag2, mag_lim) ==
  Array([k \in 1..Len(mag1) |->
     /\ (self.limiting_band # NoneS) =>
          (self.limiting_mag # NoneF /\ FLt(mag_lim[k], self.limiting_mag))
     /\ FLt(Num(0), mag1[k]) /\ FLt(mag1[k], Num(50))
     /\ FLt(Num(0), mag2[k]) /\ FLt(mag2[k], Num(50))])

\* color_distribution(galaxy_catalog, bin_args, base_output_dir).  none_lt
\* is what array < None does in the interpreter at hand: it raises a
\* TypeError or it compares false.
color_distribution(self, catalog, bin_args, none_lt) ==
  LET filters == MockFilters(self)
      a1 == get_quantities(catalog, self.band1, filters)
      a2 == get_quantities(catalog, self.band2, filters)
      limited == self.limiting_band # NoneS
      limiting_band_name == self.translate[self.limiting_band]
      a3 == get_quantities(catalog, limiting_band_name, filters)
      one == <<Fetch(self.band1, filters)>>
      two == Append(one, Fetch(self.band2, filters))
      calls == IF limited THEN Append(two, Fetch(limiting_band_name, filters)) ELSE two
      mask == MagMask(self, a1.data, a2.data, IF limited THEN a3.data ELSE <<>>)
      mag1 == Take(a1.data, Where(mask))
      mag2 == Take(a2.data, Where(mask))
      values == Array([k \in 1..Len(mag1) |-> mag1[k][2] - mag2[k][2]])
  IN  IF a1.raised # "" THEN Raises(a1.raised, one)
      ELSE IF a2.raised # "" THEN Raises(a2.raised, two)
      ELSE IF Len(a1.data) = 0 THEN ReturnsNone("No object in the redshift range!", two)
      ELSE IF limited /\ self.limiting_band \notin DOMAIN self.translate
           THEN Raises("KeyError", two)
      ELSE IF limited /\ a3.raised # "" THEN Raises(a3.raised, calls)
      ELSE IF limited /\ self.limiting_mag = NoneF /\ none_lt = "TypeError"
           THEN Raises("TypeError", calls)
      ELSE IF \A k \in 1..Len(mask) : ~mask[k]
           THEN ReturnsNone("No object in the magnitude range!", calls)
      ELSE ReturnsHist(calls, values,
                       BinCenters(bin_args[1], bin_args[2], bin_args[3]),
                       Normalize(Histogram(values, bin_args[1], bin_args[2], bin_args[3])))

\* ------------------------------------------------------------ run inputs
\* Rows for the validation run, all with finite coordinates.  Observed
\* magnitudes in the window 1 < z < 3 are the rest magnitudes plus 42.
\*   RowPlain: u, g, r = 14, 13, 12; u-g = 1 and g-r = 1.
\*   RowNoU:   u = 0 is no sensible magnitude; g-r = 3.
\*   RowFar:   redshift 3 is not inside the window.
\*   RowFaint: r = 25 is fainter than a limiting magnitude of 20; u-g = 2,
\*             g-r = -9 lies outside [-1, 4].
RowPlain == Row(Num(1), Num(2), Num(3), Num(2), Num(21), Num(-28), Num(-29), Num(-30))
RowNoU == Row(Num(1), Num(2), Num(3), Num(2), Num(23), Num(-42), Num(-27), Num(-30))
RowFar == Row(Num(1), Num(2), Num(3), Num(3), Num(24), Num(-28), Num(-29), Num(-30))
RowFaint == Row(Num(1), Num(2), Num(3), Num(2), Num(25), Num(-24), Num(-26), Num(-17))

RunRows == {RowPlain, RowNoU, RowFar, RowFaint}

RunCatalogs == SeqsUpTo(RunRows, MaxRows)

\* The success flags L2Diff, L1Diff and KS_test answer with.  They differ
\* from run to run; within a run the model keeps the flags of the first
\* comparison for the later colors.
StatFlags == [L2 : BOOLEAN, L1 : BOOLEAN, KS : BOOLEAN]

VARIABLES
  pc,                   \* "new", "ready", "loop", "returned", "init_raised", "run_raised"
  kwargs,               \* the arguments the constructor was called with
  self,                 \* the validator's fields
  raised,               \* the exception that ended __init__ or the run
  galaxy_catalog,       \* the table of the catalog given to the run
  stat_success,         \* the success flags of the three statistics in this run
  vsummary,             \* the preloaded validation summary, bound or not
  index,                \* the loop variable, from 0
  no_cdf_q,
  catalog_quantiles,
  validation_quantiles,
  ohist, ocdf,          \* the reference histogram and its cdf of the last iteration
  mhist, mcdf,          \* the mock histogram and its cdf of the last comparison
  values,               \* the differences binned by the last color_distribution
  calls,                \* per color reached: the calls of get_quantities
  processed,            \* per color reached: "missing", "empty" or "compared"
  summary_txt,          \* the lines of summary.txt
  log_txt,              \* the lines of log.txt
  quantile_files,       \* catalog_quantiles.txt and validation_quantiles.txt
  plot_files,           \* whether plot_cdf.png and plot_pdf.png were saved
  result                \* the status of the TestResult returned

run_vars ==
  <<pc, kwargs, self, raised, galaxy_catalog, stat_success, vsummary, index, no_cdf_q,
    catalog_quantiles, validation_quantiles, ohist, ocdf, mhist, mcdf, values,
    calls, processed, summary_txt, log_txt, quantile_files, plot_files, result>>

vars == <<run_vars, reader_vars>>

\* The variables of one run before the run starts.
NoRun ==
  /\ galaxy_catalog = <<>>
  /\ stat_success = [L2 |-> FALSE, L1 |-> FALSE, KS |-> FALSE]
  /\ vsummary = [bound |-> FALSE, data |-> <<>>]
  /\ index = 0
  /\ no_cdf_q = TRUE
  /\ catalog_quantiles = <<>>
  /\ validation_quantiles = <<>>
  /\ ohist = NoHist /\ ocdf = NoHist /\ mhist = NoHist /\ mcdf = NoHist
  /\ values = <<>>
  /\ calls = <<>>
  /\ processed = <<>>
  /\ summary_txt = <<>>
  /\ log_txt = <<>>
  /\ quantile_files = [written |-> FALSE, catalog |-> <<>>, validation |-> <<>>]
  /\ plot_files = FALSE
  /\ result = ""

NoReader ==
  /\ reader_catalog = <<>>
  /\ q_id = ""
  /\ q_filters = Dict(EmptyItems)
  /\ q_answer = [raised |-> "", mask |-> <<>>, data |-> <<>>]

Init ==
  /\ pc = "new"
  /\ kwargs = NoCall
  /\ self = NoSelf
  /\ raised = <<"", "">>
  /\ NoRun
  /\ NoReader

\* ColorDistributionTest(load_validation_catalog_q, **kwargs)
Construct(k) ==
  /\ pc = "new"
  /\ kwargs' = k
  /\ raised' = InitRaises(k)
  /\ IF InitRaises(k) = <<"", "">>
     THEN pc' = "ready" /\ self' = InitSelf(k)
     ELSE pc' = "init_raised" /\ self' = self
  /\ UNCHANGED <<galaxy_catalog, stat_success, vsummary, index, no_cdf_q,
                 catalog_quantiles, validation_quantiles, ohist, ocdf, mhist, mcdf,
                 values, calls, processed, summary_txt, log_txt, quantile_files,
                 plot_files, result>>
  /\ UNCHANGED reader_vars

\* run_validation_test up to the loop over the colors: the two figures, the
\* validation summary, the header line of summary.txt, the quantile arrays.
\* plt.subplots(0, 2), for an empty color list, raises a ValueError in some
\* releases of matplotlib and returns an empty grid in others.
RunStart(catalog, empty_grid) ==
  /\ pc = "ready"
  /\ galaxy_catalog' = catalog
  /\ IF Len(self.colors) = 0 /\ empty_grid = "ValueError"
     THEN /\ pc' = "run_raised"
          /\ raised' = <<"ValueError", "subplots">>
          /\ UNCHANGED <<vsummary, summary_txt, catalog_quantiles, validation_quantiles>>
     ELSE /\ pc' = "loop"
          /\ raised' = raised
          /\ vsummary' =
               IF self.load_validation_catalog_q /\ self._data_name \in {"DEEP2", "SDSS"}
               THEN [bound |-> TRUE, data |-> load_summary(self._data_name, self.colors)]
               ELSE [bound |-> FALSE, data |-> <<>>]
          /\ summary_txt' = Append(summary_txt, <<"z", self.zlo_obs, self.zhi_obs>>)
          /\ catalog_quantiles' = Array([i \in 1..Len(self.colors) |-> ZeroRow])
          /\ validation_quantiles' = Array([i \in 1..Len(self.colors) |-> ZeroRow])
  /\ UNCHANGED <<kwargs, self, stat_success, index, no_cdf_q, ohist, ocdf, mhist, mcdf, values,
                 calls, processed, log_txt, quantile_files, plot_files, result>>
  /\ UNCHANGED reader_vars

\* ------------------------------------------------------------- the loop
\* color = self.colors[index]
Color == self.colors[index + 1]

\* Both letters of the color have an entry in self.translate.
Translatable == Color[1] \in DOMAIN self.translate /\ Color[3] \in DOMAIN self.translate

\* self after self.band1 = band1 and self.band2 = band2.
Banded ==
  [self EXCEPT !.band1 = self.translate[Color[1]], !.band2 = self.translate[Color[3]]]

\* vsummary is read only when load_validation_catalog_q is set; it is bound
\* only for the data names DEEP2 and SDSS.
ReferenceBound == self.load_validation_catalog_q => vsummary.bound

\* (obinctr, ohist) of the iteration.
Reference ==
  IF self.load_validation_catalog_q THEN vsummary.data[index + 1]
  ELSE load_validation_data(index + 1)

\* Mutant of HasQuantities: only the second band is looked up.
HasSecondQuantity(band1, band2) == band2 \in DOMAIN quantities

\* all(k in galaxy_catalog.quantities for k in (self.band1, self.band2))
HasQuantities(band1, band2) ==
  band1 \in DOMAIN quantities /\ band2 \in DOMAIN quantities

\* self.color_distribution(galaxy_catalog, (-1, 4, 2000), base_output_dir)
MockDistribution(none_lt) ==
  color_distribution(Banded, galaxy_catalog, <<BinLo, BinHi, NumEdges>>, none_lt)

\* The iteration reaches color_distribution.
Extracts ==
  /\ pc = "loop"
  /\ index < Len(self.colors)
  /\ Translatable
  /\ ReferenceBound
  /\ HasQuantities(Banded.band1, Banded.band2)

\* One line of summary.txt for a statistic.
StatLine(color, success, name, value) ==
  <<color, IF success THEN "SUCCESS" ELSE "FAILED", name, value>>

\* The three lines written after a comparison.
StatLines(color, success) ==
  <<StatLine(color, success.L2, "L2Diff", "L2"),
    IF success.L1 THEN StatLine(color, TRUE, "L1Diff", "L1")
    ELSE StatLine(color, FALSE, "L1Diff", "L2"),
    StatLine(color, success.KS, "K-S", "KS")>>

\* An iteration that ends the run with an exception: a band letter without
\* an entry in translate, vsummary read while unbound, or an exception raised
\* inside color_distribution.
IterRaises(none_lt) ==
  /\ pc = "loop"
  /\ index < Len(self.colors)
  /\ \/ /\ ~Translatable
        /\ raised' = <<"KeyError", "translate">>
        /\ UNCHANGED <<self, ohist, ocdf, calls>>
     \/ /\ Translatable
        /\ ~ReferenceBound
        /\ raised' = <<"UnboundLocalError", "vsummary">>
        /\ self' = Banded
        /\ UNCHANGED <<ohist, ocdf, calls>>
     \/ /\ Extracts
        /\ LET cd == MockDistribution(none_lt)
           IN  /\ cd.kind = "raise"
               /\ raised' = <<cd.raised, "color_distribution">>
               /\ calls' = Append(calls, cd.calls)
        /\ self' = Banded
        /\ ohist' = Reference.hist
        /\ ocdf' = Cumsum(Reference.hist)
  /\ pc' = "run_raised"
  /\ UNCHANGED <<kwargs, galaxy_catalog, stat_success, vsummary, index, no_cdf_q,
                 catalog_quantiles, validation_quantiles, mhist, mcdf, values,
                 processed, summary_txt, log_txt, quantile_files, plot_files, result>>
  /\ UNCHANGED reader_vars

\* An iteration for a color with a band the catalog does not have: a line
\* in log.txt, then continue.
IterMissingBand ==
  /\ pc = "loop"
  /\ index < Len(self.colors)
  /\ Translatable
  /\ ReferenceBound
  /\ ~HasQuantities(Banded.band1, Banded.band2)
  /\ self' = Banded
  /\ ohist' = Reference.hist
  /\ ocdf' = Cumsum(Reference.hist)
  /\ log_txt' = Append(log_txt, <<"galaxy catalog does not have quantity",
                                  Banded.band1, Banded.band2>>)
  /\ calls' = Append(calls, <<>>)
  /\ processed' = Append(processed, "missing")
  /\ index' = index + 1
  /\ UNCHANGED <<pc, kwargs, raised, galaxy_catalog, stat_success, vsummary, no_cdf_q,
                 catalog_quantiles, validation_quantiles, mhist, mcdf, values,
                 summary_txt, quantile_files, plot_files, result>>
  /\ UNCHANGED reader_vars

\* An iteration whose color_distribution returns (None, None): the line it
\* logged, then return TestResult('SKIPPED', '').
IterEmpty(none_lt) ==
  /\ Extracts
  /\ LET cd == MockDistribution(none_lt)
     IN  /\ cd.kind = "none"
         /\ log_txt' = log_txt \o cd.log
         /\ calls' = Append(calls, cd.calls)
  /\ self' = Banded
  /\ ohist' = Reference.hist
  /\ ocdf' = Cumsum(Reference.hist)
  /\ processed' = Append(processed, "empty")
  /\ result' = "SKIPPED"
  /\ pc' = "returned"
  /\ UNCHANGED <<kwargs, raised, galaxy_catalog, stat_success, vsummary, index, no_cdf_q,
                 catalog_quantiles, validation_quantiles, mhist, mcdf, values,
                 summary_txt, quantile_files, plot_files>>
  /\ UNCHANGED reader_vars

\* An iteration that compares the mock histogram with the reference: the
\* cdf, the statistics, the quantile rows, the lines of summary.txt.
IterCompare(none_lt, flags) ==
  /\ Extracts
  /\ no_cdf_q \/ flags = stat_success
  /\ LET cd == MockDistribution(none_lt)
         cdf == Cumsum(cd.hist)
     IN  /\ cd.kind = "hist"
         /\ calls' = Append(calls, cd.calls)
         /\ values' = cd.values
         /\ mhist' = cd.hist
         /\ mcdf' = cdf
         /\ catalog_quantiles' =
              [catalog_quantiles EXCEPT ![index + 1] = QuantileRow(cd.binctr, cdf)]
  /\ self' = Banded
  /\ ohist' = Reference.hist
  /\ ocdf' = Cumsum(Reference.hist)
  /\ no_cdf_q' = FALSE
  /\ stat_success' = flags
  /\ validation_quantiles' =
       [validation_quantiles EXCEPT ![index + 1] =
          QuantileRow(Reference.binctr, Cumsum(Reference.hist))]
  /\ summary_txt' = summary_txt \o StatLines(Color, flags)
  /\ processed' = Append(processed, "compared")
  /\ index' = index + 1
  /\ UNCHANGED <<pc, kwargs, raised, galaxy_catalog, vsummary, log_txt,
                 quantile_files, plot_files, result>>
  /\ UNCHANGED reader_vars

\* After the loop: save the plots if a cdf was drawn, save both quantile
\* arrays, return PASSED or SKIPPED.
Finish ==
  /\ pc = "loop"
  /\ index = Len(self.colors)
  /\ plot_files' = (no_cdf_q = FALSE)
  /\ quantile_files' = [written |-> TRUE, catalog |-> catalog_quantiles,
                        validation |-> validation_quantiles]
  /\ result' = IF ~no_cdf_q THEN "PASSED" ELSE "SKIPPED"
  /\ pc' = "returned"
  /\ UNCHANGED <<kwargs, self, raised, galaxy_catalog, stat_success, vsummary, index, no_cdf_q,
                 catalog_quantiles, validation_quantiles, ohist, ocdf, mhist, mcdf,
                 values, calls, processed, summary_txt, log_txt>>
  /\ UNCHANGED reader_vars

NoneLt == {"TypeError", "False"}

\* The steps of one validator, its run given a catalog of catalogs and the
\* statistics answering with flags of flagsets.
NextWith(catalogs, flagsets) ==
  \/ \E k \in Calls : Construct(k)
  \/ \E catalog \in catalogs, empty_grid \in {"ValueError", "grid"} :
       RunStart(catalog, empty_grid)
  \/ \E none_lt \in NoneLt : IterRaises(none_lt)
  \/ IterMissingBand
  \/ \E none_lt \in NoneLt : IterEmpty(none_lt)
  \/ \E none_lt \in NoneLt, flags \in flagsets : IterCompare(none_lt, flags)
  \/ Finish

\* The runs over every catalog, the three statistics succeeding or failing
\* together.
Next == NextWith(RunCatalogs, {[L2 |-> b, L1 |-> b, KS |-> b] : b \in BOOLEAN})

Spec == Init /\ [][Next]_vars

\* The runs over the catalogs of one row, for every combination of the three
\* success flags.
StatNext == NextWith(SeqsUpTo(RunRows, 1), StatFlags)

StatSpec == Init /\ [][StatNext]_vars

\* ------------------------------------------------------------ the reader
\* The reader after load(fn): the table is in memory, nothing was asked yet.
ReaderInit ==
  /\ reader_catalog \in ReaderCatalogs
  /\ q_id = ""
  /\ q_filters = Dict(EmptyItems)
  /\ q_answer = [raised |-> "", mask |-> <<>>, data |-> <<>>]
  /\ pc = "new"
  /\ kwargs = NoCall
  /\ self = NoSelf
  /\ raised = <<"", "">>
  /\ NoRun

\* One call of get_quantities.  The catalog is immutable after load.
GetQuantities(id, filters) ==
  /\ q_id' = id
  /\ q_filters' = filters
  /\ q_answer' = get_quantities(reader_catalog, id, filters)
  /\ UNCHANGED reader_catalog
  /\ UNCHANGED run_vars

ReaderNext == \E id \in QuantityNames, filters \in FilterArgs : GetQuantities(id, filters)

ReaderSpec == ReaderInit /\ [][ReaderNext]_vars

\* ------------------------------------------------------------ reader claims
\* A call was made with a dict and a known quantity name.
Asked == q_id \in DOMAIN quantities /\ q_filters.type = "dict"

\* The rows a filter set selects: finite x, y and z, zlo < redshift when zlo
\* is given, redshift < zhi when zhi is given.
Selected(row, items) ==
  /\ row["x"][1] = "num" /\ row["y"][1] = "num" /\ row["z"][1] = "num"
  /\ ("zlo" \in DOMAIN items => FLt(items["zlo"], row["redshift"]))
  /\ ("zhi" \in DOMAIN items => FLt(row["redshift"], items["zhi"]))

\* The value of a quantity for one row.
ValueOf(row, id) ==
  CASE id = "SDSS_u:observed:" -> FAdd(row["SDSS_u:rest:"], distmod(row["redshift"]))
    [] id = "SDSS_g:observed:" -> FAdd(row["SDSS_g:rest:"], distmod(row["redshift"]))
    [] id = "SDSS_r:observed:" -> FAdd(row["SDSS_r:rest:"], distmod(row["redshift"]))
    [] OTHER -> row[id]

\* C5: for a filter set whose keys are among zlo and zhi, get_quantities
\* (stored or derived) returns one value for exactly the rows with finite x,
\* y and z that lie strictly inside the given redshift bounds, in stored row
\* order; this includes the empty filter set.
C5_SelectedRowsInOrder ==
  (Asked /\ DOMAIN q_filters.items \subseteq {"zlo", "zhi"}) =>
    LET rows == SelectSeq(reader_catalog, LAMBDA row : Selected(row, q_filters.items))
    IN  /\ q_answer.raised = ""
        /\ q_answer.data = Array([k \in 1..Len(rows) |-> ValueOf(rows[k], q_id)])

\* C5 witness: a derived quantity asked with both bounds given; a row on a
\* bound was dropped and a row inside was kept.
C5_Witness ==
  /\ q_id = "SDSS_g:observed:"
  /\ DOMAIN q_filters.items = {"zlo", "zhi"}
  /\ Len(reader_catalog) = 2
  /\ reader_catalog[1]["redshift"] = q_filters.items["zhi"]
  /\ Len(q_answer.data) = 1
  /\ q_answer.data[1] = Num(-29 + 42)

\* C5 witness for the empty filter set: a row with a non-finite coordinate
\* is dropped although no filter was given.
C5_WitnessEmptyFilter ==
  /\ q_id = "halo_id"
  /\ DOMAIN q_filters.items = {}
  /\ Len(reader_catalog) = 2
  /\ q_answer.data = <<Num(12)>>

\* The filter dict with every key other than zlo and zhi removed.
Recognized(items) == [k \in DOMAIN items \cap {"zlo", "zhi"} |-> items[k]]

\* C6: keys other than zlo and zhi are ignored: the mask built for a filter
\* dict is the mask built for the dict without them, and nothing is raised.
C6_UnknownKeysIgnored ==
  Asked =>
    /\ q_answer.raised = ""
    /\ q_answer.mask = construct_mask(reader_catalog, Dict(Recognized(q_filters.items))).mask

\* C6 witness: a dict with an unknown key beside zlo, and a mask that keeps
\* one row and drops another.
C6_Witness ==
  /\ Asked
  /\ DOMAIN q_filters.items = {"zlo", "mass_min"}
  /\ q_answer.mask = <<TRUE, FALSE>>

\* --------------------------------------------------------------- run claims
\* The translated bands of the color at position i (from 1).
Band1At(i) == self.translate[self.colors[i][1]]
Band2At(i) == self.translate[self.colors[i][3]]

\* A color was compared and nothing happened to a color since.
JustCompared == processed # <<>> /\ processed[Len(processed)] = "compared"

\* C1: an empty result set for a color skips only that color: the run goes
\* on to the colors after it, so a run that has returned after an empty
\* color has gone through every configured color.
C1_EmptyColorOnlySkipped ==
  \A i \in 1..Len(processed) :
    processed[i] = "empty" =>
      /\ \E n \in 1..Len(log_txt) :
           log_txt[n] \in {<<"No object in the redshift range!">>,
                           <<"No object in the magnitude range!">>}
      /\ pc = "returned" => Len(processed) = Len(self.colors)

\* C2: the result is PASSED if at least one color was compared and SKIPPED
\* only if every color was skipped; nothing else is returned.
C2_PassedIffSomeColorCompared ==
  pc = "returned" =>
    /\ result \in {"PASSED", "SKIPPED"}
    /\ result = "PASSED" <=> \E i \in 1..Len(processed) : processed[i] = "compared"

\* C3: a run that returned a result has written both quantile files, each
\* with one row of 5 columns per configured color, in configuration order.
C3_QuantileFilesWritten ==
  pc = "returned" =>
    /\ quantile_files.written
    /\ quantile_files.catalog = catalog_quantiles
    /\ quantile_files.validation = validation_quantiles
    /\ Len(quantile_files.catalog) = Len(self.colors)
    /\ Len(quantile_files.validation) = Len(self.colors)
    /\ \A i \in 1..Len(self.colors) :
         Len(quantile_files.catalog[i]) = 5 /\ Len(quantile_files.validation[i]) = 5

\* The line the loop logs for a color whose bands the catalog lacks.
IsMissingLine(line) == line[1] = "galaxy catalog does not have quantity"

C7_HistogramSumsToOne ==
  JustCompared =>
    /\ mhist.den # 0
    /\ SumTo(mhist.num, Len(mhist.num)) = mhist.den

\* cdf is the cumulative sum of hist: entry k is the sum of the entries of
\* hist up to k, the entries do not decrease, and the last one is 1.
IsCdf(cdf, hist) ==
  /\ Len(cdf.num) = Len(hist.num)
  /\ cdf.den = hist.den
  /\ cdf.den # 0
  /\ \A k \in 1..Len(cdf.num) : cdf.num[k] = SumTo(hist.num, k)
  /\ \A k \in 1..(Len(cdf.num) - 1) : cdf.num[k] <= cdf.num[k + 1]
  /\ cdf.num[Len(cdf.num)] = cdf.den

\* C9: the cumulative sums computed for the mock and for the reference
\* histogram are non-decreasing prefix sums that end at 1.
C9_CdfMonotoneToOne ==
  /\ JustCompared => IsCdf(mcdf, mhist)
  /\ ohist # NoHist => IsCdf(ocdf, ohist)

\* The call is rejected: a required keyword is missing, or a color is not
\* three characters with '-' in the middle.
Rejected(k) ==
  \/ ~(Required \subseteq k.has)
  \/ \E i \in 1..Len(k.colors) : Len(k.colors[i]) # 3 \/ k.colors[i][2] # "-"

\* __init__ raises exactly for the rejected calls, with an exception that
\* names what is wrong.
FailsAtSetup ==
  pc # "new" =>
    /\ pc = "init_raised" <=> Rejected(kwargs)
    /\ pc = "init_raised" =>
         /\ raised[1] \in {"KeyError", "ValueError"}
         /\ raised[2] # ""
    /\ pc # "init_raised" => self.colors = kwargs.colors /\ self.translate = kwargs.translate

\* C8: __init__ raises exactly for the rejected calls, with a descriptive
\* error, and the run of a constructed validator never ends with an
\* exception caused by its configuration.
C8_NoLateConfigurationError ==
  /\ FailsAtSetup
  /\ pc # "run_raised"

\* The rows of the catalog that color_distribution bins for the color at
\* position i: the rows the redshift window selects, with both magnitudes
\* strictly between 0 and 50 and, with a limiting band, the magnitude in
\* that band below the limiting magnitude.
Binned(i) ==
  SelectSeq(galaxy_catalog,
            LAMBDA row :
              /\ Selected(row, MockFilters(self).items)
              /\ FLt(Num(0), ValueOf(row, Band1At(i)))
              /\ FLt(ValueOf(row, Band1At(i)), Num(50))
              /\ FLt(Num(0), ValueOf(row, Band2At(i)))
              /\ FLt(ValueOf(row, Band2At(i)), Num(50))
              /\ self.limiting_band # NoneS =>
                   /\ self.limiting_mag # NoneF
                   /\ FLt(ValueOf(row, self.translate[self.limiting_band]),
                          self.limiting_mag))

\* The names of the quantities fetched for the color at position i.
Fetched(i) == Array([n \in 1..Len(calls[i]) |-> calls[i][n].id])

\* C10: the differences that are binned are those of exactly the selected
\* rows, in row order, and a color is compared exactly when there is such a
\* row; every fetch of a color uses the one filter set of the redshift
\* window; without a limiting band only the two bands are fetched, with one
\* a compared color fetched the limiting band's quantity as the third.
C10_HistogramRows ==
  /\ JustCompared =>
       values = Array([k \in 1..Len(Binned(Len(processed))) |->
                         ValueOf(Binned(Len(processed))[k], Band1At(Len(processed)))[2]
                         - ValueOf(Binned(Len(processed))[k], Band2At(Len(processed)))[2]])
  /\ \A i \in 1..Len(processed) :
       /\ processed[i] = "compared" => Binned(i) # <<>>
       /\ processed[i] = "empty" => Binned(i) = <<>>
       /\ \A n \in 1..Len(calls[i]) : calls[i][n].filters = MockFilters(self)
       /\ (processed[i] # "missing" /\ self.limiting_band = NoneS) =>
            Fetched(i) = <<Band1At(i), Band2At(i)>>
       /\ (processed[i] = "compared" /\ self.limiting_band # NoneS) =>
            Fetched(i) = <<Band1At(i), Band2At(i), self.translate[self.limiting_band]>>

\* C10 witness: with the limiting band r and magnitude 20, a faint row with
\* sensible u and g is left out and the plain row is binned.
C10_Witness ==
  /\ JustCompared
  /\ self.limiting_band = "r"
  /\ galaxy_catalog = <<RowFaint, RowPlain>>
  /\ self.colors[Len(processed)] = UG
  /\ values = <<1>>

\* v is the bin center of the first bin whose cdf value is strictly above
\* the threshold tnum/1000.
FirstCrossing(binctr, cdf, tnum, v) ==
  \E k \in 1..Len(cdf.num) :
    /\ cdf.den > 0
    /\ cdf.num[k] * 1000 > tnum * cdf.den
    /\ \A j \in 1..(k - 1) : cdf.num[j] * 1000 <= tnum * cdf.den
    /\ v = binctr[k]

\* The five markers of a row are first crossings of the five thresholds and
\* do not decrease.
IsQuantileRow(row, binctr, cdf) ==
  /\ Len(row) = 5
  /\ \A t \in 1..5 : FirstCrossing(binctr, cdf, Thresholds[t], row[t])
  /\ \A t \in 1..4 : row[t] <= row[t + 1]

\* C11: for a compared color each of the five markers stored for the mock
\* and for the reference is the bin center of the first bin whose cdf is
\* strictly above its threshold, and the five markers do not decrease.
C11_QuantilesAreFirstCrossings ==
  JustCompared =>
    /\ IsQuantileRow(catalog_quantiles[Len(processed)],
                     BinCenters(BinLo, BinHi, NumEdges), mcdf)
    /\ IsQuantileRow(validation_quantiles[Len(processed)],
                     BinCenters(BinLo, BinHi, NumEdges), ocdf)

\* C12: every quantity name passed to get_quantities in a run is a key of
\* the catalog's quantity table, so no lookup of an unknown quantity
\* happens.
C12_OnlyKnownQuantitiesFetched ==
  \A i \in 1..Len(calls) :
    \A n \in 1..Len(calls[i]) : calls[i][n].id \in DOMAIN quantities

\* SUCCESS or FAILED for a flag.
Mark(flag) == IF flag THEN "SUCCESS" ELSE "FAILED"

\* C13: summary.txt has three statistic lines per compared color; the last
\* three lines after a comparison are those of L2Diff, L1Diff and K-S in this
\* order, each marked by its own flag and each printing the value of the
\* statistic it names.
C13_SummaryLines ==
  /\ Cardinality({n \in 1..Len(summary_txt) : Len(summary_txt[n]) = 4})
       = 3 * Cardinality({i \in 1..Len(processed) : processed[i] = "compared"})
  /\ JustCompared =>
       LET n == Len(summary_txt)
           color == self.colors[Len(processed)]
       IN  /\ summary_txt[n - 2] = <<color, Mark(stat_success.L2), "L2Diff", "L2">>
           /\ summary_txt[n - 1] = <<color, Mark(stat_success.L1), "L1Diff", "L1">>
           /\ summary_txt[n] = <<color, Mark(stat_success.KS), "K-S", "KS">>

====
